---------------------------- MODULE Spec2Model ----------------------------
(***************************************************************************)
(* A model of wand-rs' `vacuum` command (src/src/commands/vacuum.rs).      *)
(*                                                                         *)
(* A text is a sequence of BYTES, one one-character string per byte, as    *)
(* Rust's String is UTF-8: the two-byte character U+00E9 is the lead byte  *)
(* "C3" followed by the continuation byte "A9".  Offsets are Rust's        *)
(* 0-based byte offsets; s[p + 1] is the byte at offset p.                 *)
(***************************************************************************)
EXTENDS Integers, Sequences, FiniteSets, TLC

(***************************************************************************)
(* Bytes and characters                                                    *)
(***************************************************************************)
Lower == {"a","b","c","d","e","f","g","h","i","j","k","l","m",
          "n","o","p","q","r","s","t","u","v","w","x","y","z"}
Upper == {"A","B","C","D","E","F","G","H","I","J","K","L","M",
          "N","O","P","Q","R","S","T","U","V","W","X","Y","Z"}
Digit == {"0","1","2","3","4","5","6","7","8","9"}

\* The UTF-8 encoding of U+00E9 (e with acute), a letter.
LeadByte == "C3"
ContByte == "A9"

\* A byte that is not the first byte of its character.
IsContinuation(b) == b = ContByte

\* [a-zA-Z0-9_]
IsIdentByte(b) == b \in Lower \cup Upper \cup Digit \cup {"_"}

\* \w of the regex crate (Unicode aware): U+00E9 is a letter, so both of its
\* bytes lie inside a word.
IsWordByte(b) == IsIdentByte(b) \/ b \in {LeadByte, ContByte}

\* \s of the regex crate and char::is_whitespace, on the bytes texts hold.
IsSpace(b) == b \in {" ", "\n", "\t"}

None == "None"

(***************************************************************************)
(* str primitives                                                          *)
(***************************************************************************)
\* content[a..b]
Slice(s, a, b) == SubSeq(s, a + 1, b)

\* str::is_char_boundary
IsCharBoundary(s, p) ==
    \/ p = 0
    \/ p = Len(s)
    \/ p > 0 /\ p < Len(s) /\ ~IsContinuation(s[p + 1])

\* content.chars(): the characters in order, each named by its first byte.
Chars(s) == SelectSeq(s, LAMBDA b : ~IsContinuation(b))

\* content.chars().nth(n): the n-th CHARACTER, not the character at byte n.
CharsNth(s, n) == LET cs == Chars(s) IN IF n < Len(cs) THEN cs[n + 1] ELSE None

\* s[p..].starts_with(pat)
StartsWithAt(s, p, pat) ==
    /\ p + Len(pat) <= Len(s)
    /\ \A k \in 1..Len(pat) : s[p + k] = pat[k]

\* str::find(pat) on s[from..], as an offset into s; -1 for no match.
FindFrom(s, pat, from) ==
    LET hits == {p \in from..(Len(s) - Len(pat)) : StartsWithAt(s, p, pat)}
    IN  IF hits = {} THEN -1 ELSE CHOOSE p \in hits : \A q \in hits : p <= q

\* str::rfind(pat) on s[..to]; -1 for no match.
RFindBefore(s, pat, to) ==
    LET hits == {p \in 0..(to - Len(pat)) : StartsWithAt(s, p, pat)}
    IN  IF hits = {} THEN -1 ELSE CHOOSE p \in hits : \A q \in hits : p >= q

\* str::trim
Trim(s) ==
    LET keep == {k \in 1..Len(s) : ~IsSpace(s[k])}
    IN  IF keep = {} THEN <<>>
        ELSE SubSeq(s, CHOOSE k \in keep : \A j \in keep : k <= j,
                       CHOOSE k \in keep : \A j \in keep : k >= j)

\* str::ends_with
EndsWith(s, pat) == Len(pat) <= Len(s) /\ StartsWithAt(s, Len(s) - Len(pat), pat)

\* \s* from offset p: the first offset q >= p that holds no white space.
RECURSIVE SkipSpaces(_, _)
SkipSpaces(s, p) ==
    IF p < Len(s) /\ IsSpace(s[p + 1]) THEN SkipSpaces(s, p + 1) ELSE p

\* [a-zA-Z0-9_]* from offset p, greedy.
RECURSIVE SkipIdent(_, _)
SkipIdent(s, p) ==
    IF p < Len(s) /\ IsIdentByte(s[p + 1]) THEN SkipIdent(s, p + 1) ELSE p

\* content.matches(pat).count(): non-overlapping literal matches, left to right.
RECURSIVE MatchesCountFrom(_, _, _)
MatchesCountFrom(s, pat, from) ==
    IF from + Len(pat) > Len(s) THEN 0
    ELSE IF StartsWithAt(s, from, pat)
         THEN 1 + MatchesCountFrom(s, pat, from + Len(pat))
         ELSE MatchesCountFrom(s, pat, from + 1)

MatchesCount(s, pat) == MatchesCountFrom(s, pat, 0)

(***************************************************************************)
(* The two declaration patterns                                            *)
(***************************************************************************)
KwFunction == <<"f","u","n","c","t","i","o","n">>
NoMatch == [start |-> -1, end |-> -1, name |-> <<>>]

\* `\bfunction\s+` at offset i: the offset after the white space, -1 if it does
\* not match there.
DeclHeadAt(s, i) ==
    IF /\ StartsWithAt(s, i, KwFunction)
       /\ (i = 0 \/ ~IsWordByte(s[i]))
       /\ i + Len(KwFunction) < Len(s)
       /\ IsSpace(s[i + Len(KwFunction) + 1])
    THEN SkipSpaces(s, i + Len(KwFunction))
    ELSE -1

\* `\s*\(` at offset r: the offset after the parenthesis, -1 if no match.
DeclTailAt(s, r) ==
    LET t == SkipSpaces(s, r)
    IN  IF t < Len(s) /\ s[t + 1] = "(" THEN t + 1 ELSE -1

\* r"\bfunction\s+([a-zA-Z0-9_]+)\s*\(" anchored at offset i.
AnyDeclAt(s, i) ==
    LET q == DeclHeadAt(s, i)
        r == IF q < 0 THEN -1 ELSE SkipIdent(s, q)
        e == IF q < 0 \/ r = q THEN -1 ELSE DeclTailAt(s, r)
    IN  IF e < 0 THEN NoMatch ELSE [start |-> i, end |-> e, name |-> Slice(s, q, r)]

\* format!(r"\bfunction\s+{}\s*\(", regex::escape(func_name)) anchored at i.
\* The pattern without the end of the name: a longer name that starts with
\* func_name matches too.
NamedDeclPrefixAt(s, i, func_name) ==
    LET q == DeclHeadAt(s, i)
        e == IF q < 0 \/ ~StartsWithAt(s, q, func_name) THEN -1
             ELSE DeclTailAt(s, SkipIdent(s, q + Len(func_name)))
    IN  IF e < 0 THEN NoMatch ELSE [start |-> i, end |-> e, name |-> func_name]

NamedDeclAt(s, i, func_name) ==
    LET q == DeclHeadAt(s, i)
        e == IF q < 0 \/ ~StartsWithAt(s, q, func_name) THEN -1
             ELSE DeclTailAt(s, q + Len(func_name))
    IN  IF e < 0 THEN NoMatch ELSE [start |-> i, end |-> e, name |-> func_name]

\* captures_iter's next step: the leftmost match starting at or after `from`.
FirstAnyDecl(s, from) ==
    LET hits == {i \in from..(Len(s) - 1) : AnyDeclAt(s, i).start >= 0}
    IN  IF hits = {} THEN NoMatch
        ELSE AnyDeclAt(s, CHOOSE i \in hits : \A j \in hits : i <= j)

\* function_pattern.find(&content): the leftmost match.
FindNamedDecl(s, func_name) ==
    LET hits == {i \in 0..(Len(s) - 1) : NamedDeclAt(s, i, func_name).start >= 0}
    IN  IF hits = {} THEN NoMatch
        ELSE NamedDeclAt(s, CHOOSE i \in hits : \A j \in hits : i <= j, func_name)

(***************************************************************************)
(* extract_functions: the Name Matcher                                     *)
(***************************************************************************)
\* captures_iter(&content).map(|cap| cap[1]).collect(), resumed at the end of the
\* previous match.
RECURSIVE CapturesFrom(_, _)
CapturesFrom(s, from) ==
    LET m == FirstAnyDecl(s, from)
    IN  IF m.start < 0 THEN <<>> ELSE <<m.name>> \o CapturesFrom(s, m.end)

\* The matcher collecting into a set of names: a name declared twice is
\* reported once.
RECURSIVE Dedup(_)
Dedup(names) ==
    IF names = <<>> THEN <<>>
    ELSE LET front == SubSeq(names, 1, Len(names) - 1)
             last  == names[Len(names)]
         IN  IF \E k \in 1..Len(front) : front[k] = last
             THEN Dedup(front)
             ELSE Append(Dedup(front), last)

ExtractDistinct(content) == Dedup(CapturesFrom(content, 0))

extract_functions(content) == CapturesFrom(content, 0)

(***************************************************************************)
(* should_ignore_function                                                  *)
(*                                                                         *)
(* An ignore pattern is the text of a regular expression.  The model holds *)
(* three shapes: "^lit" (anchored literal), "lit" (literal found anywhere) *)
(* and a text Regex::new rejects.                                          *)
(***************************************************************************)
\* Regex::new(pattern).ok()
RegexNewOk(pattern) == pattern.valid

\* regex.is_match(func_name)
IsMatch(pattern, func_name) ==
    IF pattern.anchored THEN StartsWithAt(func_name, 0, pattern.lit)
    ELSE FindFrom(func_name, pattern.lit, 0) >= 0

should_ignore_function(func_name, ignore_patterns) ==
    \E k \in 1..Len(ignore_patterns) :
        /\ RegexNewOk(ignore_patterns[k])
        /\ IsMatch(ignore_patterns[k], func_name)

(***************************************************************************)
(* remove_unused_functions: the span of one function and its excision      *)
(***************************************************************************)
\* while pos < content.len() { match content.chars().nth(pos) { '{' => break,
\* ';' => { found_semicolon = true; break } _ => {} } pos += 1 }
\* cs is content.chars(), len is content.len().
RECURSIVE ScanOpen(_, _, _)
ScanOpen(cs, len, pos) ==
    IF pos < len
    THEN LET c == IF pos < Len(cs) THEN cs[pos + 1] ELSE None
         IN  IF c = "{" THEN [pos |-> pos, found_semicolon |-> FALSE]
             ELSE IF c = ";" THEN [pos |-> pos, found_semicolon |-> TRUE]
             ELSE ScanOpen(cs, len, pos + 1)
    ELSE [pos |-> pos, found_semicolon |-> FALSE]

\* while bracket_count > 0 && pos < content.len() { ...; pos += 1 }
RECURSIVE CountBrackets(_, _, _, _)
CountBrackets(cs, len, pos, bracket_count) ==
    IF bracket_count > 0 /\ pos < len
    THEN LET c == IF pos < Len(cs) THEN cs[pos + 1] ELSE None
         IN  CountBrackets(cs, len, pos + 1,
                           IF c = "{" THEN bracket_count + 1
                           ELSE IF c = "}" THEN bracket_count - 1
                           ELSE bracket_count)
    ELSE [pos |-> pos, bracket_count |-> bracket_count]

DocOpen  == <<"/", "*", "*">>
DocClose == <<"*", "/">>
Newline  == <<"\n">>

\* The end of the span: pos + 1 after a semicolon, the offset after the loop that
\* brought bracket_count to 0, -1 when the loop ended with bracket_count > 0 (the
\* `continue`) or when no '{' or ';' was met (pos = content.len()).
EndPos(content, mat_end) ==
    LET cs   == Chars(content)
        len  == Len(content)
        open == ScanOpen(cs, len, mat_end)
        body == CountBrackets(cs, len, open.pos + 1, 1)
    IN  IF open.pos >= len THEN -1
        ELSE IF open.found_semicolon THEN open.pos + 1
        ELSE IF body.bracket_count = 0 THEN body.pos
        ELSE -1

\* natspec_start: the nearest "/**" before the declaration when the trimmed text
\* from it to the declaration starts with "/**" and ends with "*/".
NatspecStart(content, start_pos) ==
    LET possible_natspec_start == RFindBefore(content, DocOpen, start_pos)
        between_text == Trim(Slice(content, possible_natspec_start, start_pos))
    IN  IF /\ possible_natspec_start >= 0
           /\ StartsWithAt(between_text, 0, DocOpen)
           /\ EndsWith(between_text, DocClose)
        THEN possible_natspec_start
        ELSE start_pos

\* content[..natspec_start].rfind('\n').map_or(0, |pos| pos + 1)
LineStart(content, natspec_start) ==
    RFindBefore(content, Newline, natspec_start) + 1

\* The line break is kept: the cut ends at the '\n', not after it.
NextLineStartAtBreak(content, end_pos) ==
    LET nl == FindFrom(content, Newline, end_pos)
    IN  IF nl >= 0 THEN nl ELSE Len(content)

\* content[end_pos..].find('\n').map(|pos| end_pos + pos + 1)
\*     .unwrap_or(content.len())
NextLineStart(content, end_pos) ==
    LET nl == FindFrom(content, Newline, end_pos)
    IN  IF nl >= 0 THEN nl + 1 ELSE Len(content)

\* The search with .unwrap() for `if let Some(mat)`: a name that is not found
\* panics.
LocateSpanUnwrap(content, func_name) ==
    LET mat == FindNamedDecl(content, func_name)
        end_pos == EndPos(content, mat.end)
        natspec_start == NatspecStart(content, mat.start)
    IN  IF mat.start < 0
        THEN [status |-> "panic", start_pos |-> -1, mat_end |-> -1,
              end_pos |-> -1, natspec_start |-> -1, line_start |-> -1,
              next_line_start |-> -1]
        ELSE IF end_pos < 0
        THEN [status |-> "unresolved", start_pos |-> mat.start,
              mat_end |-> mat.end, end_pos |-> -1, natspec_start |-> -1,
              line_start |-> -1, next_line_start |-> -1]
        ELSE IF ~IsCharBoundary(content, end_pos)
        THEN [status |-> "panic", start_pos |-> mat.start, mat_end |-> mat.end,
              end_pos |-> end_pos, natspec_start |-> natspec_start,
              line_start |-> LineStart(content, natspec_start),
              next_line_start |-> -1]
        ELSE [status |-> "removed", start_pos |-> mat.start, mat_end |-> mat.end,
              end_pos |-> end_pos, natspec_start |-> natspec_start,
              line_start |-> LineStart(content, natspec_start),
              next_line_start |-> NextLineStart(content, end_pos)]

\* One pass of the `for func_name in unused_functions` body, up to the slices:
\* what was found and the offsets computed.  status is
\*   "not_found"   function_pattern.find returned None
\*   "unresolved"  no end of span: nothing is removed
\*   "panic"       &content[end_pos..] with end_pos inside a character
\*   "removed"     the span [line_start, next_line_start) is cut out
LocateSpan(content, func_name) ==
    LET mat == FindNamedDecl(content, func_name)
        end_pos == EndPos(content, mat.end)
        natspec_start == NatspecStart(content, mat.start)
    IN  IF mat.start < 0
        THEN [status |-> "not_found", start_pos |-> -1, mat_end |-> -1,
              end_pos |-> -1, natspec_start |-> -1, line_start |-> -1,
              next_line_start |-> -1]
        ELSE IF end_pos < 0
        THEN [status |-> "unresolved", start_pos |-> mat.start,
              mat_end |-> mat.end, end_pos |-> -1, natspec_start |-> -1,
              line_start |-> -1, next_line_start |-> -1]
        ELSE IF ~IsCharBoundary(content, end_pos)
        THEN [status |-> "panic", start_pos |-> mat.start, mat_end |-> mat.end,
              end_pos |-> end_pos, natspec_start |-> natspec_start,
              line_start |-> LineStart(content, natspec_start),
              next_line_start |-> -1]
        ELSE [status |-> "removed", start_pos |-> mat.start, mat_end |-> mat.end,
              end_pos |-> end_pos, natspec_start |-> natspec_start,
              line_start |-> LineStart(content, natspec_start),
              next_line_start |-> NextLineStart(content, end_pos)]

\* new_content: content[..line_start], then content[next_line_start..] when
\* next_line_start < content.len().
Excise(content, span) ==
    Slice(content, 0, span.line_start)
        \o (IF span.next_line_start < Len(content)
            THEN Slice(content, span.next_line_start, Len(content))
            ELSE <<>>)

\* The loop body without its `continue`: a body that is never closed is cut
\* out to the end of the text.
RemoveOneNoContinue(content, func_name) ==
    LET span == LocateSpan(content, func_name)
    IN  IF span.status = "removed" THEN Excise(content, span)
        ELSE IF span.status = "unresolved"
        THEN Slice(content, 0, LineStart(content, span.start_pos))
        ELSE content

\* The content after one pass of the loop body.
RemoveOne(content, func_name) ==
    LET span == LocateSpan(content, func_name)
    IN  IF span.status = "removed" THEN Excise(content, span) ELSE content

(***************************************************************************)
(* The file system and collect_sol_files                                   *)
(***************************************************************************)
\* The paths of the model.  A directory is listed by read_dir as a sequence of
\* entries; `ext` is path.extension().
SrcDir == "src"
SubDir == "src/sub"
LibDir == "lib"
FileA  == "src/A.sol"
FileB  == "src/sub/B.sol"
FileN  == "src/sub/N.md"
FileL  == "lib/L.sol"
Missing == "missing"

Dirs  == {SrcDir, SubDir, LibDir}
Files == {FileA, FileB, FileN, FileL}

Extension(path) == IF path \in {FileA, FileB, FileL} THEN "sol" ELSE "md"

\* read_dir(current_dir): the order is the operating system's.
Listings ==
    { [d \in Dirs |-> CASE d = SrcDir -> <<FileA, SubDir>>
                        [] d = SubDir -> <<FileB, FileN>>
                        [] d = LibDir -> <<FileL>>],
      [d \in Dirs |-> CASE d = SrcDir -> <<SubDir, FileA>>
                        [] d = SubDir -> <<FileN, FileB>>
                        [] d = LibDir -> <<FileL>>] }

\* while let Some(current_dir) = dirs_to_visit.pop() { for entry in read_dir ... }
RECURSIVE VisitEntries(_, _, _, _)
VisitEntries(entries, k, dirs_to_visit, sol_files) ==
    IF k > Len(entries)
    THEN [dirs_to_visit |-> dirs_to_visit, sol_files |-> sol_files]
    ELSE LET path == entries[k]
         IN  IF path \in Dirs
             THEN VisitEntries(entries, k + 1, Append(dirs_to_visit, path), sol_files)
             ELSE IF Extension(path) = "sol"
             THEN VisitEntries(entries, k + 1, dirs_to_visit, Append(sol_files, path))
             ELSE VisitEntries(entries, k + 1, dirs_to_visit, sol_files)

RECURSIVE VisitDirs(_, _, _)
VisitDirs(listing, dirs_to_visit, sol_files) ==
    IF dirs_to_visit = <<>> THEN sol_files
    ELSE LET current_dir == dirs_to_visit[Len(dirs_to_visit)]
             rest == SubSeq(dirs_to_visit, 1, Len(dirs_to_visit) - 1)
             seen == VisitEntries(listing[current_dir], 1, rest, sol_files)
         IN  VisitDirs(listing, seen.dirs_to_visit, seen.sol_files)

collect_sol_files(listing, dir) == VisitDirs(listing, <<dir>>, <<>>)

\* fs::read_dir(current_dir)? : the traversal returns Err as soon as the
\* directory it pops cannot be read.
RECURSIVE VisitDirsErr(_, _, _)
VisitDirsErr(listing, unreadable, dirs_to_visit) ==
    IF dirs_to_visit = <<>> THEN FALSE
    ELSE LET current_dir == dirs_to_visit[Len(dirs_to_visit)]
             rest == SubSeq(dirs_to_visit, 1, Len(dirs_to_visit) - 1)
         IN  \/ current_dir \in unreadable
             \/ VisitDirsErr(listing, unreadable,
                     VisitEntries(listing[current_dir], 1, rest, <<>>).dirs_to_visit)

\* collect_sol_files(dir) is Err(..)
collect_sol_files_err(listing, unreadable, dir) ==
    VisitDirsErr(listing, unreadable, <<dir>>)

\* fs::read_to_string(path).unwrap_or_default()
ReadOrDefault(disk, unreadable, path) ==
    IF path \in unreadable THEN <<>> ELSE disk[path]

Range(seq) == {seq[k] : k \in 1..Len(seq)}

(***************************************************************************)
(* count_function_occurrences and the classification                       *)
(***************************************************************************)
\* The closure of par_iter().map: local_counts of one file.  Inserting a name
\* twice stores the same value twice.
LocalCounts(content, function_names) ==
    [func \in Range(function_names) |-> MatchesCount(content, func)]

\* The merge with `=` for `+=`: a later file's count replaces the earlier sum.
MergeCountsOverwrite(function_counts, local_counts) ==
    [func \in DOMAIN function_counts \cup DOMAIN local_counts |->
        IF func \in DOMAIN local_counts THEN local_counts[func]
        ELSE function_counts[func]]

\* for (func, count) in count { *function_counts.entry(func).or_default() += count }
MergeCounts(function_counts, local_counts) ==
    [func \in DOMAIN function_counts \cup DOMAIN local_counts |->
        (IF func \in DOMAIN function_counts THEN function_counts[func] ELSE 0)
      + (IF func \in DOMAIN local_counts THEN local_counts[func] ELSE 0)]

\* function_counts.get(func).unwrap_or(&0)
GetCount(function_counts, func) ==
    IF func \in DOMAIN function_counts THEN function_counts[func] ELSE 0

\* The filter with `<` for `<=`: a name that occurs once is kept.
IsUnusedStrict(func, function_counts, ignore_patterns) ==
    /\ GetCount(function_counts, func) < 1
    /\ ~should_ignore_function(func, ignore_patterns)

\* The filter of process_single_file.
IsUnused(func, function_counts, ignore_patterns) ==
    /\ GetCount(function_counts, func) <= 1
    /\ ~should_ignore_function(func, ignore_patterns)

\* functions.iter().filter(..).cloned().collect()
UnusedFunctions(functions, function_counts, ignore_patterns) ==
    SelectSeq(functions, LAMBDA func : IsUnused(func, function_counts, ignore_patterns))

(***************************************************************************)
(* STATE                                                                   *)
(***************************************************************************)
VARIABLES
    disk,              \* the content of every file, as fs::read_to_string sees it
    disk0,             \* the content of every file when the run began
    listing,           \* what read_dir returns for every directory
    args,              \* VacuumArgs: path, root, delete, ignore
    unreadable,        \* the files and directories whose read returns Err
    run_state,         \* where `run` is: "start", "workers", "ok", "failed", "panicked"
    total_unused,      \* run's total_unused
    pc,                \* per file: where its process_single_file call is
    functions,         \* per call: extract_functions' result
    sol_files,         \* per call: count_function_occurrences' sol_files
    counts,            \* per call: the Vec of local_counts, by index into sol_files
    scanned,           \* per call: the indices whose local_counts are computed
    function_counts,   \* per call: the merged map
    merged,            \* per call: how many local maps the merge loop has folded in
    unused_functions,  \* per call: the names marked for removal
    content,           \* per call: remove_unused_functions' buffer
    next_name,         \* per call: index of the next name of the removal loop
    notices,           \* per call: the names printed in "Removed function: {}"
    result,            \* per call: the Ok value, None before it returns
    writes             \* per file: the contents fs::write has stored, in order

vars == <<disk, disk0, listing, args, unreadable, run_state, total_unused, pc, functions,
          sol_files, counts, scanned, function_counts, merged,
          unused_functions, content, next_name, notices, result, writes>>

inputVars == <<disk0, listing, args, unreadable>>
countVars == <<sol_files, counts, scanned, function_counts, merged>>
removeVars == <<content, next_name, notices>>

(***************************************************************************)
(* run                                                                     *)
(***************************************************************************)
\* The process_single_file calls `run` makes: one for a file, one per collected
\* .sol file for a directory.
Targets ==
    IF args.path \in Files THEN {args.path}
    ELSE IF args.path \in Dirs /\ ~collect_sol_files_err(listing, unreadable, args.path)
    THEN Range(collect_sol_files(listing, args.path))
    ELSE {}

\* args.path.is_file(): the one call is made on the calling thread.
RunFile ==
    /\ run_state = "start"
    /\ args.path \in Files
    /\ run_state' = "workers"
    /\ pc' = [f \in Files |-> IF f = args.path THEN "extract" ELSE "off"]
    /\ UNCHANGED <<disk, inputVars, total_unused, functions, countVars,
                   unused_functions, removeVars, result, writes>>

\* args.path.is_dir(): sol_files.par_iter().map(process_single_file).
RunDir ==
    /\ run_state = "start"
    /\ args.path \in Dirs
    /\ ~collect_sol_files_err(listing, unreadable, args.path)
    /\ run_state' = "workers"
    /\ pc' = [f \in Files |-> IF f \in Targets THEN "extract" ELSE "off"]
    /\ UNCHANGED <<disk, inputVars, total_unused, functions, countVars,
                   unused_functions, removeVars, result, writes>>

\* collect_sol_files(&args.path)? is Err: run returns it before any call.
RunDirErr ==
    /\ run_state = "start"
    /\ args.path \in Dirs
    /\ collect_sol_files_err(listing, unreadable, args.path)
    /\ run_state' = "failed"
    /\ UNCHANGED <<disk, inputVars, total_unused, pc, functions, countVars,
                   unused_functions, removeVars, result, writes>>

\* Neither: Err(NotFound) before any work.
RunNotFound ==
    /\ run_state = "start"
    /\ args.path \notin Files \cup Dirs
    /\ run_state' = "failed"
    /\ UNCHANGED <<disk, inputVars, total_unused, pc, functions, countVars,
                   unused_functions, removeVars, result, writes>>

(***************************************************************************)
(* process_single_file, one call per file f                                *)
(***************************************************************************)
\* extract_functions(sol_file), then the start of count_function_occurrences:
\* every name at 0, the root's files collected, no file scanned yet.
Extract(f) ==
    /\ run_state = "workers"
    /\ pc[f] = "extract"
    /\ f \notin unreadable
    /\ ~collect_sol_files_err(listing, unreadable, args.root)
    /\ LET names == extract_functions(disk[f])
           found == collect_sol_files(listing, args.root)
       IN  /\ functions' = [functions EXCEPT ![f] = names]
           /\ function_counts' = [function_counts EXCEPT
                                     ![f] = [func \in Range(names) |-> 0]]
           /\ sol_files' = [sol_files EXCEPT ![f] = found]
           /\ counts' = [counts EXCEPT ![f] = [k \in 1..Len(found) |-> <<>>]]
    /\ scanned' = [scanned EXCEPT ![f] = {}]
    /\ merged' = [merged EXCEPT ![f] = 0]
    /\ pc' = [pc EXCEPT ![f] = "count"]
    /\ UNCHANGED <<disk, inputVars, run_state, total_unused, unused_functions,
                   removeVars, result, writes>>

\* extract_functions(sol_file)? is Err: fs::read_to_string(sol_file) failed.
ExtractErr(f) ==
    /\ run_state = "workers"
    /\ pc[f] = "extract"
    /\ f \in unreadable
    /\ pc' = [pc EXCEPT ![f] = "failed"]
    /\ UNCHANGED <<disk, inputVars, run_state, total_unused, functions,
                   countVars, unused_functions, removeVars, result, writes>>

\* count_function_occurrences(..)? is Err: collect_sol_files(root_dir)? met a
\* directory it could not read.
CountErr(f) ==
    /\ run_state = "workers"
    /\ pc[f] = "extract"
    /\ f \notin unreadable
    /\ collect_sol_files_err(listing, unreadable, args.root)
    /\ functions' = [functions EXCEPT ![f] = extract_functions(disk[f])]
    /\ pc' = [pc EXCEPT ![f] = "failed"]
    /\ UNCHANGED <<disk, inputVars, run_state, total_unused, countVars,
                   unused_functions, removeVars, result, writes>>

\* One task of sol_files.par_iter().map(..): the k-th file of the root is read
\* and its local_counts stored at index k.  The tasks run in any order.
Scan(f, k) ==
    /\ run_state = "workers"
    /\ pc[f] = "count"
    /\ k \in 1..Len(sol_files[f])
    /\ k \notin scanned[f]
    /\ counts' = [counts EXCEPT
                     ![f][k] = LocalCounts(ReadOrDefault(disk, unreadable,
                                                         sol_files[f][k]),
                                           functions[f])]
    /\ scanned' = [scanned EXCEPT ![f] = scanned[f] \cup {k}]
    /\ UNCHANGED <<disk, inputVars, run_state, total_unused, pc, functions,
                   sol_files, function_counts, merged, unused_functions,
                   removeVars, result, writes>>

Scanned(f) == scanned[f] = 1..Len(sol_files[f])

\* One pass of `for count in counts`, after collect() has every local map.
Merge(f) ==
    /\ run_state = "workers"
    /\ pc[f] = "count"
    /\ Scanned(f)
    /\ merged[f] < Len(sol_files[f])
    /\ merged' = [merged EXCEPT ![f] = merged[f] + 1]
    /\ function_counts' = [function_counts EXCEPT
                              ![f] = MergeCounts(function_counts[f],
                                                 counts[f][merged[f] + 1])]
    /\ UNCHANGED <<disk, inputVars, run_state, total_unused, pc, functions,
                   sol_files, counts, scanned, unused_functions, removeVars,
                   result, writes>>

Counted(f) == pc[f] = "count" /\ Scanned(f) /\ merged[f] = Len(sol_files[f])

\* The report and the filter; nothing is marked, or --delete is not given:
\* Ok(unused_functions.len()).
ClassifyKeep(f) ==
    /\ run_state = "workers"
    /\ Counted(f)
    /\ LET unused == UnusedFunctions(functions[f], function_counts[f], args.ignore)
       IN  /\ unused = <<>> \/ ~args.delete
           /\ unused_functions' = [unused_functions EXCEPT ![f] = unused]
           /\ result' = [result EXCEPT ![f] = Len(unused)]
    /\ pc' = [pc EXCEPT ![f] = "done"]
    /\ UNCHANGED <<disk, inputVars, run_state, total_unused, functions,
                   countVars, removeVars, writes>>

\* Some name is marked and --delete is given: remove_unused_functions is
\* called and reads the file again.
ClassifyDelete(f) ==
    /\ run_state = "workers"
    /\ Counted(f)
    /\ LET unused == UnusedFunctions(functions[f], function_counts[f], args.ignore)
       IN  /\ unused # <<>> /\ args.delete
           /\ unused_functions' = [unused_functions EXCEPT ![f] = unused]
    /\ content' = [content EXCEPT ![f] = disk[f]]
    /\ next_name' = [next_name EXCEPT ![f] = 1]
    /\ pc' = [pc EXCEPT ![f] = "remove"]
    /\ UNCHANGED <<disk, inputVars, run_state, total_unused, functions,
                   countVars, notices, result, writes>>

\* The pass with an in-place edit: the buffer is stored in the file after every
\* name, not once after the loop.
RemoveStepWriting(f) ==
    /\ run_state = "workers"
    /\ pc[f] = "remove"
    /\ next_name[f] <= Len(unused_functions[f])
    /\ LET func_name == unused_functions[f][next_name[f]]
           span == LocateSpan(content[f], func_name)
           new_content == RemoveOne(content[f], func_name)
       IN  /\ span.status # "panic"
           /\ content' = [content EXCEPT ![f] = new_content]
           /\ notices' = [notices EXCEPT
                             ![f] = IF span.status = "removed"
                                    THEN Append(notices[f], func_name)
                                    ELSE notices[f]]
           /\ disk' = [disk EXCEPT ![f] = new_content]
           /\ writes' = [writes EXCEPT ![f] = Append(writes[f], new_content)]
    /\ next_name' = [next_name EXCEPT ![f] = next_name[f] + 1]
    /\ UNCHANGED <<inputVars, run_state, total_unused, pc, functions,
                   countVars, unused_functions, result>>

\* One pass of `for func_name in unused_functions` that does not panic.
RemoveStep(f) ==
    /\ run_state = "workers"
    /\ pc[f] = "remove"
    /\ next_name[f] <= Len(unused_functions[f])
    /\ LET func_name == unused_functions[f][next_name[f]]
           span == LocateSpan(content[f], func_name)
       IN  /\ span.status # "panic"
           /\ content' = [content EXCEPT ![f] = RemoveOne(content[f], func_name)]
           /\ notices' = [notices EXCEPT
                             ![f] = IF span.status = "removed"
                                    THEN Append(notices[f], func_name)
                                    ELSE notices[f]]
    /\ next_name' = [next_name EXCEPT ![f] = next_name[f] + 1]
    /\ UNCHANGED <<disk, inputVars, run_state, total_unused, pc, functions,
                   countVars, unused_functions, result, writes>>

\* A pass whose &content[end_pos..] is not on a character boundary: the thread
\* panics, the file is not written.
RemovePanic(f) ==
    /\ run_state = "workers"
    /\ pc[f] = "remove"
    /\ next_name[f] <= Len(unused_functions[f])
    /\ LocateSpan(content[f], unused_functions[f][next_name[f]]).status = "panic"
    /\ pc' = [pc EXCEPT ![f] = "panic"]
    /\ UNCHANGED <<disk, inputVars, run_state, total_unused, functions,
                   countVars, unused_functions, removeVars, result, writes>>

\* fs::write(sol_file, content) after the loop, then Ok(unused_functions.len()).
WriteBack(f) ==
    /\ run_state = "workers"
    /\ pc[f] = "remove"
    /\ next_name[f] > Len(unused_functions[f])
    /\ disk' = [disk EXCEPT ![f] = content[f]]
    /\ writes' = [writes EXCEPT ![f] = Append(writes[f], content[f])]
    /\ result' = [result EXCEPT ![f] = Len(unused_functions[f])]
    /\ pc' = [pc EXCEPT ![f] = "done"]
    /\ UNCHANGED <<inputVars, run_state, total_unused, functions, countVars,
                   unused_functions, removeVars>>

RECURSIVE SumResults(_)
SumResults(fs) ==
    IF fs = {} THEN 0
    ELSE LET f == CHOOSE g \in fs : TRUE IN result[f] + SumResults(fs \ {f})

\* Every call returned Ok: total_unused is the sum, run prints it and returns.
RunFinish ==
    /\ run_state = "workers"
    /\ \A f \in Targets : pc[f] = "done"
    /\ total_unused' = SumResults(Targets)
    /\ run_state' = "ok"
    /\ UNCHANGED <<disk, inputVars, pc, functions, countVars, unused_functions,
                   removeVars, result, writes>>

\* A call panicked.  rayon lets the calls that are running finish, may leave
\* out those not yet started, and then resumes the panic in `run`.
RunPanic ==
    /\ run_state = "workers"
    /\ \E f \in Targets : pc[f] = "panic"
    /\ \A f \in Targets : pc[f] \in {"extract", "done", "failed", "panic"}
    /\ run_state' = "panicked"
    /\ UNCHANGED <<disk, inputVars, total_unused, pc, functions, countVars,
                   unused_functions, removeVars, result, writes>>

\* A call returned Err and none panicked: the `?` of run returns the error.
\* The calls that were running have finished; others may never have started.
RunErr ==
    /\ run_state = "workers"
    /\ \E f \in Targets : pc[f] = "failed"
    /\ \A f \in Targets : pc[f] \in {"extract", "done", "failed"}
    /\ run_state' = "failed"
    /\ UNCHANGED <<disk, inputVars, total_unused, pc, functions, countVars,
                   unused_functions, removeVars, result, writes>>

(***************************************************************************)
(* The inputs of a run                                                     *)
(***************************************************************************)
Foo  == <<"f","o","o">>
FooB == <<"f","o","o","B">>
Bar  == <<"b","a","r">>
Baz  == <<"b","a","z">>
Test == <<"t","e","s","t">>

\* "function NAME()"
Fn(name) == KwFunction \o <<" ">> \o name \o <<"(",")">>

\* The pieces a generated source text is made of.
\*   1  function foo() {\n { bar(); }\n}\n     a body with a nested block
\*   2  function bar();\n                      a declaration without a body
\*   3  /** d */\n                             a documentation block
\*   4  function baz(){\n                      a body that is never closed
\*   5  function baz(){ }_                     a body, the line goes on
\*   6  // function\n                          the keyword in a comment
\*   7  bar("<U+00E9><U+00E9>");\n             a call, two two-byte characters
Pieces ==
    << Fn(Foo) \o <<" ","{","\n"," ","{"," ">> \o Bar
           \o <<"(",")",";"," ","}","\n","}","\n">>,
       Fn(Bar) \o <<";","\n">>,
       <<"/","*","*"," ","d"," ","*","/","\n">>,
       Fn(Baz) \o <<"{","\n">>,
       Fn(Baz) \o <<"{"," ","}"," ">>,
       <<"/","/"," ">> \o KwFunction \o <<"\n">>,
       Bar \o <<"(","\"",LeadByte,ContByte,LeadByte,ContByte,"\"",")",";","\n">> >>

\* The most pieces a generated text has.
MaxPieces == 3

RECURSIVE Concat(_, _)
Concat(choice, k) ==
    IF k > Len(choice) THEN <<>> ELSE Pieces[choice[k]] \o Concat(choice, k + 1)

GeneratedTexts ==
    { Concat(choice, 1) :
        choice \in UNION { [1..n -> 1..Len(Pieces)] : n \in 0..MaxPieces } }

\* --ignore patterns: the default "^test", "^fo", "ar", and "(" which
\* Regex::new rejects.
PatTest    == [valid |-> TRUE,  anchored |-> TRUE,  lit |-> Test]
PatFo      == [valid |-> TRUE,  anchored |-> TRUE,  lit |-> <<"f","o">>]
PatAr      == [valid |-> TRUE,  anchored |-> FALSE, lit |-> <<"a","r">>]
PatInvalid == [valid |-> FALSE, anchored |-> FALSE, lit |-> <<"(">>]

\* The other files beside a generated src/A.sol.
TextCallFoo == Foo \o <<"(",")",";","\n">>
TextNotes   == Foo \o <<" ">> \o Bar \o <<"\n">>

ListingA == CHOOSE l \in Listings : l[SrcDir][1] = FileA
ListingB == CHOOSE l \in Listings : l[SrcDir][1] # FileA

\* Single-file runs over every generated text: the root is src (the file is
\* counted with its neighbours) or lib (an empty file: every count is 0).
FileProfiles ==
    { [path |-> FileA, root |-> SrcDir, delete |-> TRUE,  ignore |-> <<PatTest>>],
      [path |-> FileA, root |-> LibDir, delete |-> TRUE,  ignore |-> <<PatInvalid>>],
      [path |-> FileA, root |-> LibDir, delete |-> TRUE,
       ignore |-> <<PatInvalid, PatAr>>],
      [path |-> FileA, root |-> SrcDir, delete |-> FALSE, ignore |-> <<PatFo>>] }

GeneratedInputs ==
    { [disk |-> [f \in Files |-> CASE f = FileA -> text
                                   [] f = FileB -> TextCallFoo
                                   [] f = FileN -> TextNotes
                                   [] f = FileL -> <<>>],
       listing |-> ListingA,
       args |-> profile] :
      text \in GeneratedTexts, profile \in FileProfiles }

\* Directory runs: src/A.sol and src/sub/B.sol are processed in parallel.
\*   1  A declares foo; B declares bar, whose body holds the only call of foo
\*   2  A declares foo, bar and test, bar calls foo; B declares baz
\*   3  A declares foo; B declares fooB, which calls itself
DirTexts ==
    { <<Fn(Foo) \o <<" ","{","}","\n">>,
        Fn(Bar) \o <<" ","{","\n"," ">> \o Foo \o <<"(",")",";","\n","}","\n">> >>,
      <<Fn(Foo) \o <<" ","{","}","\n">> \o Fn(Bar) \o <<" ","{"," ">> \o Foo
            \o <<"(",")",";"," ","}","\n">> \o Fn(Test) \o <<" ","{","}","\n">>,
        Fn(Baz) \o <<";","\n">> >>,
      <<Fn(Foo) \o <<" ","{","}","\n">>,
        Fn(FooB) \o <<" ","{"," ">> \o FooB \o <<"(",")",";"," ","}","\n">> >> }

DirProfiles ==
    { [path |-> SrcDir, root |-> SrcDir, delete |-> TRUE,  ignore |-> <<PatTest>>],
      [path |-> SrcDir, root |-> SrcDir, delete |-> FALSE, ignore |-> <<PatTest>>],
      [path |-> SrcDir, root |-> LibDir, delete |-> TRUE,  ignore |-> <<PatTest>>] }

DirInputs ==
    { [disk |-> [f \in Files |-> CASE f = FileA -> texts[1]
                                   [] f = FileB -> texts[2]
                                   [] f = FileN -> TextNotes
                                   [] f = FileL -> TextCallFoo],
       listing |-> l,
       args |-> profile] :
      texts \in DirTexts, l \in Listings, profile \in DirProfiles }

\* A path that is neither a file nor a directory, and a file without the .sol
\* extension (processed all the same, after a warning).
OtherInputs ==
    { [disk |-> [f \in Files |-> IF f = FileL THEN <<>> ELSE Fn(Foo) \o <<";","\n">>],
       listing |-> ListingA,
       args |-> [path |-> p, root |-> SrcDir, delete |-> TRUE,
                 ignore |-> <<PatTest>>]] :
      p \in {Missing, FileN} }

\* Texts with comments around the declarations, for single-file runs in which
\* bar is ignored and every other name is marked:
\*   1  a documentation block, bar's declaration, a plain comment, baz
\*   2  a statement, a documentation block, an empty line, foo indented and
\*      followed by a space, then bar
\*   3  a documentation block that is never closed, foo
\*   4  a documentation block and foo on one line, then bar
DocTexts ==
    { DocOpen \o <<" ","d"," ">> \o DocClose \o <<"\n">> \o Fn(Bar) \o <<";","\n">>
          \o <<"/","*"," ","n"," ">> \o DocClose \o <<"\n">>
          \o Fn(Baz) \o <<"{"," ","}","\n">>,
      <<"x",";","\n">> \o DocOpen \o <<" ","d"," ">> \o DocClose
          \o <<"\n","\n"," "," ">> \o Fn(Foo) \o <<";"," ","\n">>
          \o Fn(Bar) \o <<";","\n">>,
      DocOpen \o <<" ","d","\n">> \o Fn(Foo) \o <<";","\n">>,
      DocOpen \o <<" ","d"," ">> \o DocClose \o <<" ">> \o Fn(Foo) \o <<";","\n">>
          \o Fn(Bar) \o <<";","\n">> }

DocInputs ==
    { [disk |-> [f \in Files |-> CASE f = FileA -> text
                                   [] f = FileB -> TextCallFoo
                                   [] f = FileN -> TextNotes
                                   [] f = FileL -> <<>>],
       listing |-> ListingA,
       args |-> [path |-> FileA, root |-> LibDir, delete |-> TRUE,
                 ignore |-> <<PatInvalid, PatAr>>]] :
      text \in DocTexts }

\* A single-file run over a text that declares fooB, then foo twice, with
\* --ignore B: foo is marked twice, fooB is kept.
PatB == [valid |-> TRUE, anchored |-> FALSE, lit |-> <<"B">>]

LongerNameInputs ==
    { [disk |-> [f \in Files |->
                    CASE f = FileA -> Fn(FooB) \o <<" ","{"," ","}","\n">>
                                        \o Fn(Foo) \o <<";","\n">>
                                        \o Fn(Foo) \o <<" ","{"," ","}","\n">>
                      [] f = FileB -> TextCallFoo
                      [] f = FileN -> TextNotes
                      [] f = FileL -> <<>>],
       listing |-> ListingA,
       args |-> [path |-> FileA, root |-> LibDir, delete |-> TRUE,
                 ignore |-> <<PatB>>]] }

Inputs ==
    GeneratedInputs \cup DirInputs \cup OtherInputs \cup DocInputs
        \cup LongerNameInputs

\* Runs in which a read fails: src/A.sol declares foo, src/sub/B.sol declares
\* bar and holds the one call of foo, lib/L.sol calls foo.
UnreadableProfiles ==
    { [path |-> SrcDir, root |-> SrcDir, unreadable |-> {FileB}],
      [path |-> FileA,  root |-> SrcDir, unreadable |-> {FileB}],
      [path |-> FileA,  root |-> SrcDir, unreadable |-> {SubDir}],
      [path |-> FileA,  root |-> LibDir, unreadable |-> {FileL}],
      [path |-> FileA,  root |-> LibDir, unreadable |-> {LibDir}],
      [path |-> SrcDir, root |-> LibDir, unreadable |-> {SubDir}] }

UnreadableInputs ==
    { [disk |-> [f \in Files |->
                    CASE f = FileA -> Fn(Foo) \o <<" ","{","}","\n">>
                      [] f = FileB -> Fn(Bar) \o <<" ","{"," ">> \o Foo
                                        \o <<"(",")",";"," ","}","\n">>
                      [] f = FileN -> TextNotes
                      [] f = FileL -> TextCallFoo],
       listing |-> l,
       args |-> [path |-> profile.path, root |-> profile.root, delete |-> TRUE,
                 ignore |-> <<PatTest>>],
       unreadable |-> profile.unreadable] :
      l \in Listings, profile \in UnreadableProfiles }

(***************************************************************************)
(* The specification                                                       *)
(***************************************************************************)
Init ==
    /\ \/ \E in \in Inputs :
            /\ disk = in.disk
            /\ disk0 = in.disk
            /\ listing = in.listing
            /\ args = in.args
            /\ unreadable = {}
       \/ \E in \in UnreadableInputs :
            /\ disk = in.disk
            /\ disk0 = in.disk
            /\ listing = in.listing
            /\ args = in.args
            /\ unreadable = in.unreadable
    /\ run_state = "start"
    /\ total_unused = 0
    /\ pc = [f \in Files |-> "off"]
    /\ functions = [f \in Files |-> <<>>]
    /\ sol_files = [f \in Files |-> <<>>]
    /\ counts = [f \in Files |-> <<>>]
    /\ scanned = [f \in Files |-> {}]
    /\ function_counts = [f \in Files |-> <<>>]
    /\ merged = [f \in Files |-> 0]
    /\ unused_functions = [f \in Files |-> <<>>]
    /\ content = [f \in Files |-> <<>>]
    /\ next_name = [f \in Files |-> 0]
    /\ notices = [f \in Files |-> <<>>]
    /\ result = [f \in Files |-> None]
    /\ writes = [f \in Files |-> <<>>]

Next ==
    \/ RunFile
    \/ RunDir
    \/ RunDirErr
    \/ RunNotFound
    \/ \E f \in Files :
        \/ Extract(f)
        \/ ExtractErr(f)
        \/ CountErr(f)
        \/ \E k \in 1..Cardinality(Files) : Scan(f, k)
        \/ Merge(f)
        \/ ClassifyKeep(f)
        \/ ClassifyDelete(f)
        \/ RemoveStep(f)
        \/ RemovePanic(f)
        \/ WriteBack(f)
    \/ RunFinish
    \/ RunPanic
    \/ RunErr

Spec == Init /\ [][Next]_vars

(***************************************************************************)
(* Auxiliary predicates of the properties                                  *)
(***************************************************************************)
\* process_single_file has computed unused_functions for f.
Classified(f) == pc[f] \in {"remove", "panic", "done"}

\* The name matches one of the --ignore patterns (one that is a regular
\* expression at all).
MatchesSomePattern(func) ==
    \E k \in 1..Len(args.ignore) :
        args.ignore[k].valid /\ IsMatch(args.ignore[k], func)

\* The source files under a directory, at any depth.
UnderRoot(dir) ==
    CASE dir = SrcDir -> {FileA, FileB}
      [] dir = SubDir -> {FileB}
      [] dir = LibDir -> {FileL}
      [] OTHER -> {}

\* The text of every file as the run found it, a file that cannot be read
\* being taken as empty.
Readable0 == [g \in Files |-> ReadOrDefault(disk0, unreadable, g)]

\* Some fs::write has happened in this run.
SomeFileWritten == \E g \in Files : writes[g] # <<>>

(***************************************************************************)
(* C1  Usage classification.  Once a file's names are classified, a        *)
(* declared name is in the removal list if and only if its occurrence      *)
(* count is at most 1 and it matches no ignore pattern: a name matching a  *)
(* pattern is kept even with count 0 or 1, a name with count > 1 is kept.  *)
(***************************************************************************)
C1_Classification ==
    \A f \in Files :
        Classified(f) =>
            \A func \in Range(functions[f]) :
                (func \in Range(unused_functions[f]))
                    <=> (function_counts[f][func] <= 1 /\ ~MatchesSomePattern(func))

\* A classified file with a name of count <= 1 kept by a pattern, a name of
\* count > 1 kept by its count, and a name marked for removal.
C1_Witness ==
    \E f \in Files :
        /\ Classified(f)
        /\ \E func \in Range(functions[f]) :
            /\ function_counts[f][func] <= 1
            /\ MatchesSomePattern(func)
            /\ func \notin Range(unused_functions[f])
        /\ \E func \in Range(functions[f]) :
            /\ function_counts[f][func] > 1
            /\ func \notin Range(unused_functions[f])
        /\ unused_functions[f] # <<>>

(***************************************************************************)
(* C2  Count-before-delete ordering.  No call is still to read a file for  *)
(* its occurrence counts once some file of the run has been rewritten.     *)
(***************************************************************************)
C2_CountBeforeDelete ==
    SomeFileWritten =>
        \A f \in Targets : ~(pc[f] = "extract" \/ (pc[f] = "count" /\ ~Scanned(f)))

(***************************************************************************)
(* C3  Exact-span removal.  After a file is rewritten, every function it   *)
(* declared that was not marked for removal is still declared in it.       *)
(***************************************************************************)
C3_OthersKept ==
    \A f \in Files :
        writes[f] # <<>> =>
            \A func \in Range(extract_functions(disk0[f])) :
                func \notin Range(unused_functions[f])
                    => func \in Range(extract_functions(disk[f]))

(***************************************************************************)
(* The span a text really holds, by byte offset                            *)
(***************************************************************************)
\* The first offset at or after `from` whose byte is '{' or ';' (-1: none).
RECURSIVE TrueOpen(_, _)
TrueOpen(s, from) ==
    IF from >= Len(s) THEN -1
    ELSE IF s[from + 1] \in {"{", ";"} THEN from
    ELSE TrueOpen(s, from + 1)

\* With `depth` braces open before offset p: the offset of the '}' that brings
\* the depth to 0 (-1: the text ends first).
RECURSIVE TrueClose(_, _, _)
TrueClose(s, p, depth) ==
    IF p >= Len(s) THEN -1
    ELSE IF s[p + 1] = "{" THEN TrueClose(s, p + 1, depth + 1)
    ELSE IF s[p + 1] = "}"
         THEN (IF depth = 1 THEN p ELSE TrueClose(s, p + 1, depth - 1))
    ELSE TrueClose(s, p + 1, depth)

\* The function whose removal comes next in f's loop, and the buffer it is
\* removed from.
Pending(f) == pc[f] = "remove" /\ next_name[f] <= Len(unused_functions[f])
PendingName(f) == unused_functions[f][next_name[f]]
PendingDecl(f) == FindNamedDecl(content[f], PendingName(f))
PendingSpan(f) == LocateSpan(content[f], PendingName(f))

\* The pending declaration has a body: a '{' comes before any ';'.
PendingHasBody(f) ==
    LET open == TrueOpen(content[f], PendingDecl(f).end)
    IN  /\ PendingDecl(f).start >= 0
        /\ open >= 0
        /\ content[f][open + 1] = "{"

\* The offset of the '}' matching the body's '{' (-1: never closed).
PendingClose(f) ==
    TrueClose(content[f], TrueOpen(content[f], PendingDecl(f).end) + 1, 1)

\* The pending declaration has no end: no '{' or ';' follows it, or its body is
\* never closed.
PendingUnterminated(f) ==
    /\ PendingDecl(f).start >= 0
    /\ \/ TrueOpen(content[f], PendingDecl(f).end) < 0
       \/ PendingHasBody(f) /\ PendingClose(f) < 0

(***************************************************************************)
(* C4  Brace-depth correctness.  For a declaration with a body whose       *)
(* braces balance, the span end is the offset just after the '}' that      *)
(* matches the body's first '{', whatever blocks are nested inside.        *)
(***************************************************************************)
C4_SpanEndAfterMatchingBrace ==
    \A f \in Files :
        (Pending(f) /\ PendingHasBody(f) /\ PendingClose(f) >= 0)
            => /\ PendingSpan(f).status = "removed"
               /\ PendingSpan(f).end_pos = PendingClose(f) + 1

(***************************************************************************)
(* C5  Unterminated nesting is recoverable.  When the function to remove   *)
(* has no end (its body is never closed, or no '{' or ';' follows), the    *)
(* pass leaves the buffer as it was, records no removal and does not       *)
(* fail, so that the loop goes on to the next name.                        *)
(***************************************************************************)
C5_UnterminatedSkipped ==
    \A f \in Files :
        (Pending(f) /\ PendingUnterminated(f))
            => /\ PendingSpan(f).status = "unresolved"
               /\ RemoveOne(content[f], PendingName(f)) = content[f]

(***************************************************************************)
(* C6  Deletion idempotence.  After a pass that excised every marked       *)
(* function, the Name Matcher finds none of the removed names in the       *)
(* rewritten file.                                                         *)
(***************************************************************************)
C6_RemovedNamesGone ==
    \A f \in Files :
        (writes[f] # <<>> /\ Len(notices[f]) = Len(unused_functions[f]))
            => Range(extract_functions(disk[f])) \cap Range(unused_functions[f]) = {}

(***************************************************************************)
(* C7  Round-trip safety.  A file for which no function was excised (none  *)
(* was marked, or no marked name resolved to a span) holds, when its call  *)
(* has ended, the bytes it held when the run began.                        *)
(***************************************************************************)
C7_RoundTrip ==
    \A f \in Files :
        (pc[f] \in {"done", "panic"} /\ notices[f] = <<>>) => disk[f] = disk0[f]

\* A file that was rewritten although none of its marked names resolved.
C7_Witness ==
    \E f \in Files :
        /\ pc[f] = "done"
        /\ unused_functions[f] # <<>>
        /\ notices[f] = <<>>
        /\ writes[f] = <<disk0[f]>>
        /\ disk0[f] # <<>>

(***************************************************************************)
(* C8  Occurrence counting is an order-independent sum.  Whatever order    *)
(* the per-file scans finished in, once the maps are merged (and no file   *)
(* has been rewritten meanwhile) every declared name has an entry, and it  *)
(* is the sum over the source files under the root of the name's matches   *)
(* in that file (none in a file that cannot be read): 0 when it matches    *)
(* nowhere.                                                                *)
(***************************************************************************)
RECURSIVE SumMatches(_, _, _)
SumMatches(texts, fs, func) ==
    IF fs = {} THEN 0
    ELSE LET g == CHOOSE h \in fs : TRUE
         IN  MatchesCount(texts[g], func) + SumMatches(texts, fs \ {g}, func)

C8_CountsAreSums ==
    \A f \in Files :
        ((Counted(f) \/ Classified(f)) /\ disk = disk0)
            => /\ DOMAIN function_counts[f] = Range(functions[f])
               /\ \A func \in Range(functions[f]) :
                    function_counts[f][func]
                        = SumMatches(Readable0, UnderRoot(args.root), func)

\* Two files under the root both hold the name; and a name that matches in
\* none of the root's files has the entry 0.
C8_Witness ==
    \E f \in Files :
        /\ Counted(f)
        /\ disk = disk0
        /\ \/ /\ Len(sol_files[f]) = 2
              /\ \E func \in Range(functions[f]) :
                    \A g \in UnderRoot(args.root) : MatchesCount(disk0[g], func) > 0
           \/ /\ Len(sol_files[f]) = 1
              /\ \E func \in Range(functions[f]) : function_counts[f][func] = 0

(***************************************************************************)
(* C9  Declaration-only names count exactly 1.  For a file under the root: *)
(* a declared name that the root's files declare once and hold nowhere     *)
(* else has count 1 and is marked unless a pattern ignores it; a name      *)
(* declared once and held somewhere else too (a call) has count >= 2 and   *)
(* is kept.  Declarations and occurrences are those of the files as the    *)
(* run found them.                                                         *)
(***************************************************************************)
Occurrences(seq, x) == Cardinality({k \in 1..Len(seq) : seq[k] = x})

RECURSIVE SumDeclarations(_, _, _)
SumDeclarations(texts, fs, func) ==
    IF fs = {} THEN 0
    ELSE LET g == CHOOSE h \in fs : TRUE
         IN  Occurrences(extract_functions(texts[g]), func)
                + SumDeclarations(texts, fs \ {g}, func)

C9_DeclarationOnly ==
    \A f \in Files :
        (Classified(f) /\ f \in UnderRoot(args.root)) =>
            \A func \in Range(functions[f]) :
                LET held == SumMatches(Readable0, UnderRoot(args.root), func)
                    marked == func \in Range(unused_functions[f])
                IN  SumDeclarations(Readable0, UnderRoot(args.root), func) = 1 =>
                        /\ held = 1 => /\ function_counts[f][func] = 1
                                       /\ marked <=> ~MatchesSomePattern(func)
                        /\ held >= 2 => /\ function_counts[f][func] >= 2
                                        /\ ~marked

(***************************************************************************)
(* C10  Name Matcher output.  The names extracted from a text are the      *)
(* identifiers of its declarations (the keyword at a word boundary, white  *)
(* space, the identifier, optional white space, an opening parenthesis),   *)
(* one per declaration, in the order of the declarations in the text.      *)
(***************************************************************************)
AllSpaces(s, a, b) == \A p \in a..(b - 1) : IsSpace(s[p + 1])
AllIdent(s, a, b) == \A p \in a..(b - 1) : IsIdentByte(s[p + 1])

\* s[i..] starts a declaration whose identifier is s[q..r): the keyword at a
\* word boundary, white space up to q, identifier bytes up to r, white space
\* up to some t, and '(' at t.
IsDeclarationSplit(s, i, q, r) ==
    /\ StartsWithAt(s, i, KwFunction)
    /\ i = 0 \/ ~IsWordByte(s[i])
    /\ i + Len(KwFunction) < q /\ AllSpaces(s, i + Len(KwFunction), q)
    /\ q < r /\ AllIdent(s, q, r)
    /\ \E t \in r..(Len(s) - 1) : AllSpaces(s, r, t) /\ s[t + 1] = "("

\* The identifiers of the declarations that start at offset i: one or none.
DeclaredAt(s, i) ==
    IF ~StartsWithAt(s, i, KwFunction) THEN {}
    ELSE UNION { { Slice(s, q, r) :
                     r \in { e \in (q + 1)..Len(s) : IsDeclarationSplit(s, i, q, e) } } :
                 q \in { b \in (i + Len(KwFunction) + 1)..Len(s) :
                            AllSpaces(s, i + Len(KwFunction), b) } }

RECURSIVE DeclaredFrom(_, _)
DeclaredFrom(s, i) ==
    IF i >= Len(s) THEN <<>>
    ELSE IF DeclaredAt(s, i) = {} THEN DeclaredFrom(s, i + 1)
    ELSE <<CHOOSE name \in DeclaredAt(s, i) : TRUE>> \o DeclaredFrom(s, i + 1)

C10_NamesInSourceOrder ==
    \A f \in Files :
        (pc[f] = "count" /\ scanned[f] = {}) =>
            /\ functions[f] = DeclaredFrom(disk0[f], 0)
            /\ \A i \in 0..(Len(disk0[f]) - 1) : Cardinality(DeclaredAt(disk0[f], i)) <= 1

\* A file with three declarations, two of them of one name.
C10_Witness ==
    \E f \in Files :
        /\ pc[f] = "count"
        /\ Len(functions[f]) = 3
        /\ functions[f][1] = functions[f][3]
        /\ functions[f][1] # functions[f][2]

(***************************************************************************)
(* C11  Removed count matches excisions.  When the deletion phase of a     *)
(* file has returned, the number of removal notices and the total the call *)
(* returns for the file both equal the number of marked names whose span   *)
(* was found and excised; a name that was unresolved or not found counts   *)
(* in neither.                                                             *)
(***************************************************************************)
\* The number of excisions when the names from the k-th on are processed, one
\* after the other, against the buffer.
RECURSIVE Excisions(_, _, _)
Excisions(buffer, names, k) ==
    IF k > Len(names) THEN 0
    ELSE LET span == LocateSpan(buffer, names[k])
         IN  IF span.status = "panic" THEN 0
             ELSE (IF span.status = "removed" THEN 1 ELSE 0)
                    + Excisions(RemoveOne(buffer, names[k]), names, k + 1)

DeletionReturned(f) == pc[f] = "done" /\ writes[f] # <<>>

C11_RemovedCountIsExcisions ==
    \A f \in Files :
        DeletionReturned(f) =>
            /\ Len(notices[f]) = Excisions(disk0[f], unused_functions[f], 1)
            /\ result[f] = Excisions(disk0[f], unused_functions[f], 1)

(***************************************************************************)
(* C12  Uniform unreadable-file policy.  A read failure met while the root *)
(* is scanned for occurrences never makes the call for a readable file     *)
(* return an error: the file or directory that cannot be read is skipped,  *)
(* and the merged counts are the sums over the files that can be read.     *)
(***************************************************************************)
C12_UnreadableSkipped ==
    \A f \in Files :
        f \notin unreadable =>
            /\ pc[f] # "failed"
            /\ (Counted(f) /\ disk = disk0) =>
                    \A func \in Range(functions[f]) :
                        function_counts[f][func]
                            = SumMatches(Readable0, UnderRoot(args.root), func)

(***************************************************************************)
(* C13  Documentation-block absorption.  The span start is the nearest     *)
(* documentation opening marker before the declaration exactly when the    *)
(* text from that marker to the declaration is one complete block (the     *)
(* marker, text up to the first closing marker) followed by white space    *)
(* only; otherwise it is the start of the declaration.                     *)
(***************************************************************************)
\* The start of the span by that rule.
DocBlockStart(s, start_pos) ==
    LET marker == RFindBefore(s, DocOpen, start_pos)
        close  == IF marker < 0 THEN -1 ELSE FindFrom(s, DocClose, marker + 2)
    IN  IF /\ marker >= 0
           /\ close >= 0
           /\ close + Len(DocClose) <= start_pos
           /\ AllSpaces(s, close + Len(DocClose), start_pos)
        THEN marker
        ELSE start_pos

C13_SingleBlockAbsorbed ==
    \A f \in Files :
        (Pending(f) /\ PendingSpan(f).status = "removed") =>
            PendingSpan(f).natspec_start
                = DocBlockStart(content[f], PendingSpan(f).start_pos)

(***************************************************************************)
(* C14  Line alignment.  For every excised span, what is removed starts at *)
(* the first byte of the line that holds the span start and ends at the    *)
(* first byte of the line after the one that holds the span end (at the    *)
(* end of the text when no newline follows): the new buffer is the old one *)
(* without those whole lines.                                              *)
(***************************************************************************)
\* The offset of the first byte of the line that holds offset p.
FirstOfLine(s, p) ==
    CHOOSE q \in 0..p :
        /\ q = 0 \/ s[q] = "\n"
        /\ \A r \in (q + 1)..p : s[r] # "\n"

\* The offset of the first byte of the line after the one that holds offset
\* p; Len(s) when that line is the last.
FirstOfNextLine(s, p) ==
    IF \E q \in (p + 1)..Len(s) : s[q] = "\n"
    THEN CHOOSE q \in (p + 1)..Len(s) :
            /\ s[q] = "\n"
            /\ \A r \in (p + 1)..(q - 1) : s[r] # "\n"
    ELSE Len(s)

C14_WholeLinesRemoved ==
    \A f \in Files :
        (Pending(f) /\ PendingSpan(f).status = "removed") =>
            LET span == PendingSpan(f)
                from == FirstOfLine(content[f], span.natspec_start)
                to   == FirstOfNextLine(content[f], span.end_pos)
            IN  /\ span.line_start = from
                /\ span.next_line_start = to
                /\ RemoveOne(content[f], PendingName(f))
                     = Slice(content[f], 0, from)
                         \o Slice(content[f], to, Len(content[f]))

\* A span that starts at a documentation block, on a line that is not the
\* first, and ends before the end of a line that is not the last.
C14_Witness ==
    \E f \in Files :
        /\ Pending(f)
        /\ PendingSpan(f).status = "removed"
        /\ PendingSpan(f).line_start > 0
        /\ PendingSpan(f).natspec_start < PendingSpan(f).start_pos
        /\ PendingSpan(f).end_pos + 1 < PendingSpan(f).next_line_start
        /\ PendingSpan(f).next_line_start < Len(content[f])

(***************************************************************************)
(* C15  Semicolon-terminated declarations.  When the first of '{' and ';'  *)
(* after the declaration match is a ';', the span end is the offset just   *)
(* after that semicolon, whatever braces the later text holds.             *)
(***************************************************************************)
\* The pending declaration is a prototype: a ';' comes before any '{'.
PendingSemicolon(f) ==
    LET open == TrueOpen(content[f], PendingDecl(f).end)
    IN  /\ PendingDecl(f).start >= 0
        /\ open >= 0
        /\ content[f][open + 1] = ";"

C15_SpanEndAfterSemicolon ==
    \A f \in Files :
        (Pending(f) /\ PendingSemicolon(f)) =>
            /\ PendingSpan(f).status = "removed"
            /\ PendingSpan(f).end_pos
                 = TrueOpen(content[f], PendingDecl(f).end) + 1

(***************************************************************************)
(* C16  Sequential excision against the current buffer.  The names of the  *)
(* removal list are processed in their order, each against the buffer the  *)
(* earlier excisions left, and the declaration found for a name is the     *)
(* first one in that buffer whose identifier is exactly the name, never a  *)
(* longer identifier that contains it.                                     *)
(***************************************************************************)
\* The first offset at which the text declares exactly `name` (-1: none).
FirstExactDecl(s, name) ==
    LET hits == {i \in 0..(Len(s) - 1) : DeclaredAt(s, i) = {name}}
    IN  IF hits = {} THEN -1 ELSE CHOOSE i \in hits : \A j \in hits : i <= j

\* The buffer after the first n names were processed, one after the other.
RECURSIVE ExciseInOrder(_, _, _)
ExciseInOrder(buffer, names, n) ==
    IF n = 0 THEN buffer
    ELSE RemoveOne(ExciseInOrder(buffer, names, n - 1), names[n])

C16_FirstExactDeclInCurrentBuffer ==
    \A f \in Files :
        Pending(f) =>
            /\ content[f] = ExciseInOrder(disk0[f], unused_functions[f],
                                          next_name[f] - 1)
            /\ PendingDecl(f).start = FirstExactDecl(content[f], PendingName(f))

\* The second removal of a name, on a buffer an excision has changed, with a
\* longer name declared before the declaration found.
C16_Witness ==
    \E f \in Files :
        /\ Pending(f)
        /\ next_name[f] = 2
        /\ PendingName(f) = unused_functions[f][1]
        /\ content[f] # disk0[f]
        /\ PendingDecl(f).start > 0
        /\ \E i \in 0..(PendingDecl(f).start - 1) :
              \E longer \in DeclaredAt(content[f], i) :
                 /\ Len(longer) > Len(PendingName(f))
                 /\ StartsWithAt(longer, 0, PendingName(f))

(***************************************************************************)
(* C17  Buffer-then-single-write.  A file is written at most once in a     *)
(* run, only after every name of its removal list has been processed, and  *)
(* what is written is the final buffer; until then the file on disk is as  *)
(* the run found it.                                                       *)
(***************************************************************************)
C17_SingleWriteOfFinalBuffer ==
    \A f \in Files :
        /\ Len(writes[f]) <= 1
        /\ writes[f] = <<>> => disk[f] = disk0[f]
        /\ writes[f] # <<>> =>
              /\ pc[f] = "done"
              /\ next_name[f] = Len(unused_functions[f]) + 1
              /\ writes[f][1] = ExciseInOrder(disk0[f], unused_functions[f],
                                              Len(unused_functions[f]))
              /\ disk[f] = writes[f][1]

\* A file written after two excisions.
C17_Witness ==
    \E f \in Files :
        /\ writes[f] # <<>>
        /\ Len(notices[f]) >= 2

(***************************************************************************)
(* C18  Name-not-found is not fatal.  When the buffer holds no declaration *)
(* of the name whose turn it is, the pass for that name leaves the buffer, *)
(* the notices and the file as they are and the loop goes on with the next *)
(* name: the call neither panics nor returns an error.                     *)
(***************************************************************************)
\* The pending name is declared nowhere in the current buffer.
PendingNotDeclared(f) ==
    Pending(f) /\ FirstExactDecl(content[f], PendingName(f)) < 0

C18_NotFoundSkipped ==
    [][\A f \in Files :
          (PendingNotDeclared(f) /\ <<pc[f], next_name[f]>>' # <<pc[f], next_name[f]>>)
              => /\ pc'[f] = "remove"
                 /\ next_name'[f] = next_name[f] + 1
                 /\ content'[f] = content[f]
                 /\ notices'[f] = notices[f]
                 /\ disk'[f] = disk[f]]_vars

\* A returned deletion phase in which a name, declared in the file as found,
\* had lost its declaration to an earlier excision when its turn came, and
\* was followed by another name.
C18_Witness ==
    \E f \in Files :
        /\ DeletionReturned(f)
        /\ \E k \in 1..(Len(unused_functions[f]) - 1) :
              /\ FirstExactDecl(disk0[f], unused_functions[f][k]) >= 0
              /\ FirstExactDecl(ExciseInOrder(disk0[f], unused_functions[f], k - 1),
                                unused_functions[f][k]) < 0

(***************************************************************************)
(* C19  Schedule-independent outcome.  In a directory run with deletion,   *)
(* whatever the interleaving of the per-file calls, every file has the     *)
(* names marked that the files as found determine, the run reports the sum *)
(* of their numbers, and every file ends as its own marked names, removed  *)
(* in order from the text found, leave it.  (This is the outcome of the    *)
(* schedules in which every count is taken before the first write.)        *)
(***************************************************************************)
\* The names of f marked when every file is counted as the run found it.
MarkedAsFound(f) ==
    LET names == extract_functions(disk0[f])
    IN  UnusedFunctions(names,
                        [func \in Range(names) |->
                            SumMatches(Readable0, UnderRoot(args.root), func)],
                        args.ignore)

RECURSIVE SumMarkedAsFound(_)
SumMarkedAsFound(fs) ==
    IF fs = {} THEN 0
    ELSE LET f == CHOOSE g \in fs : TRUE
         IN  Len(MarkedAsFound(f)) + SumMarkedAsFound(fs \ {f})

C19_ScheduleIndependent ==
    (args.path \in Dirs /\ args.delete) =>
        /\ \A f \in Targets :
              Classified(f) => unused_functions[f] = MarkedAsFound(f)
        /\ run_state = "ok" =>
              /\ total_unused = SumMarkedAsFound(Targets)
              /\ \A f \in Targets :
                    disk[f] = ExciseInOrder(disk0[f], MarkedAsFound(f),
                                            Len(MarkedAsFound(f)))

\* The offset just after the span that starts at or after `from`: after the
\* first ';', or after the '}' matching the first '{' (-1: the span has no end).
TrueEnd(s, from) ==
    LET open == TrueOpen(s, from)
    IN  IF open < 0 THEN -1
        ELSE IF s[open + 1] = ";" THEN open + 1
        ELSE LET close == TrueClose(s, open + 1, 1)
             IN  IF close < 0 THEN -1 ELSE close + 1

(***************************************************************************)
(* C20  Positions are byte offsets.  For every declaration found, the scan *)
(* ends where the bytes of the buffer say the span ends (just after the    *)
(* ';' or the matching '}', or nowhere), every offset the buffer is cut at *)
(* lies between two characters, and the pass does not abort.               *)
(***************************************************************************)
C20_PositionsAreByteOffsets ==
    \A f \in Files :
        (Pending(f) /\ PendingDecl(f).start >= 0) =>
            LET span == PendingSpan(f)
            IN  /\ EndPos(content[f], PendingDecl(f).end)
                      = TrueEnd(content[f], PendingDecl(f).end)
                /\ span.status # "panic"
                /\ span.status = "removed" =>
                      /\ IsCharBoundary(content[f], span.line_start)
                      /\ IsCharBoundary(content[f], span.next_line_start)

=============================================================================
